---- MODULE Spec2Model ----
(***************************************************************************)
(* Model of the GitHub -> Neo4j analyzer: the fetch layer                  *)
(* (backend/fetch_github.py), the graph import and the read queries        *)
(* (backend/neo4j_import.py) and the analyze handler (backend/app.py).     *)
(*                                                                         *)
(* Strings that the code inspects character by character (logins, error    *)
(* messages) are sequences of tokens: a login is a sequence of             *)
(* one-character strings, a number is its decimal digits, and a literal    *)
(* of the code or of the requests library that holds no digit is one token.*)
(* A percentage is the exact rational bytes*100/total in lowest terms;     *)
(* the binary rounding of the float the code stores is not modelled.       *)
(***************************************************************************)
EXTENDS Integers, Sequences, FiniteSets, Bags, TLC

VARIABLES
    g,        \* the graph store: bags of nodes and of edges
    last,     \* the last request served against the graph, with its response
    fetched,  \* the last stand-alone run of fetch_user_data, with its outcome
    runs      \* the analyze requests in progress: for each, where its import is

vars == <<g, last, fetched, runs>>

----------------------------------------------------------------------------
(* Bounds of the model.                                                    *)

MaxBytes == 2
MaxStars == 1
MaxRepos == 1
MaxTime == 2
MaxLimit == 2
MaxRateLimited == 2
MaxBatch == 2
MaxListed == 4
MaxPerPage == 3

(* Program constants.                                                      *)
PerPage == 100
TopLimit == 10

Usernames == {<<"a">>, <<"A">>, <<"4", "0", "4">>}
Languages == <<"Python", "JavaScript">>
(* The most statements one import issues: the user, and per repository    *)
(* the repository and each of its languages.                               *)
MaxStatements == 1 + MaxBatch * (1 + Len(Languages))
Null == "null"

----------------------------------------------------------------------------
(* Arithmetic helpers.                                                     *)

Min(a, b) == IF a < b THEN a ELSE b
Max(a, b) == IF a > b THEN a ELSE b

RECURSIVE GCD(_, _)
GCD(a, b) == IF b = 0 THEN a ELSE GCD(b, a % b)

Q(n, d) == LET c == GCD(n, d) IN [num |-> n \div c, den |-> d \div c]
QAdd(p, q) == Q(p.num * q.den + q.num * p.den, p.den * q.den)
QDiv(p, k) == Q(p.num, p.den * k)
Zero == Q(0, 1)
Hundred == Q(100, 1)

RECURSIVE SeqSum(_)
SeqSum(s) == IF s = <<>> THEN 0 ELSE Head(s) + SeqSum(Tail(s))

(* How many nodes or edges of bag B are in set S.                          *)
RECURSIVE CountIn(_, _)
CountIn(B, S) ==
    IF S = {} THEN 0
    ELSE LET x == CHOOSE y \in S : TRUE
         IN  CopiesIn(x, B) + CountIn(B, S \ {x})

Without(B, S) == [x \in BagToSet(B) \ S |-> B[x]]
Copies(x, n) == [y \in {x} |-> n]

----------------------------------------------------------------------------
(* The graph store (neo4j_import.py).  A MERGE matches the nodes or edges  *)
(* with the given key and creates one only when none matches; a SET        *)
(* overwrites the attributes of everything matched.                        *)

EmptyGraph == [users |-> EmptyBag, repos |-> EmptyBag, languages |-> EmptyBag,
               owns |-> EmptyBag, uses |-> EmptyBag]

UserNodes(G, login) == {n \in BagToSet(G.users) : n.login = login}
RepoNodes(G, full_name) == {n \in BagToSet(G.repos) : n.full_name = full_name}
LanguageNodes(G, name) == {n \in BagToSet(G.languages) : n.name = name}
OwnsEdges(G, login, full_name) ==
    {e \in BagToSet(G.owns) : e.user = login /\ e.repo = full_name}
UsesEdges(G, full_name, name) ==
    {e \in BagToSet(G.uses) : e.repo = full_name /\ e.language = name}

(* MERGE (n {key}) SET n.attrs: every matching node becomes `node`.        *)
MergeSet(B, matches, node) ==
    IF matches = {} THEN B (+) SetToBag({node})
    ELSE Without(B, matches) (+) Copies(node, CountIn(B, matches))

(* Mutant: every statement creates what it names (CREATE for MERGE).      *)
MergeOnly_create(B, matches, x) == B (+) Copies(x, 1)

(* MERGE of a node or edge that carries no attribute to overwrite.         *)
MergeOnly(B, matches, x) ==
    IF matches = {} THEN B (+) SetToBag({x}) ELSE B

import_user(G, user_data, now) ==
    LET node == [login |-> user_data.login,
                 public_repos |-> user_data.public_repos,
                 last_analyzed |-> now]
    IN  [G EXCEPT !.users = MergeSet(G.users, UserNodes(G, user_data.login), node)]

import_repository(G, repo_data, username) ==
    IF UserNodes(G, username) = {} THEN G
    ELSE
    LET node == [full_name |-> repo_data.full_name, name |-> repo_data.name,
                 stars |-> repo_data.stars, is_fork |-> repo_data.is_fork]
    IN  [G EXCEPT
           !.repos = MergeSet(G.repos, RepoNodes(G, repo_data.full_name), node),
           !.owns = MergeOnly(G.owns, OwnsEdges(G, username, repo_data.full_name),
                              [user |-> username, repo |-> repo_data.full_name])]

Values(languages) == [i \in DOMAIN languages |-> languages[i].bytes]

(* Mutant: the quotient taken as an integer division.                      *)
Percentage_floor(bytes_count, total_bytes) ==
    IF total_bytes > 0 THEN Q((bytes_count \div total_bytes) * 100, 1) ELSE Zero

Percentage(bytes_count, total_bytes) ==
    IF total_bytes > 0 THEN Q(bytes_count * 100, total_bytes) ELSE Zero

(* Mutant: the byte count is added to the one the edge already carries.    *)
import_language_accumulate(G, repo_full_name, language, bytes_count, percentage) ==
    IF RepoNodes(G, repo_full_name) = {} THEN G
    ELSE
    LET old == UsesEdges(G, repo_full_name, language)
        edge == [repo |-> repo_full_name, language |-> language,
                 bytes |-> IF old = {} THEN bytes_count
                           ELSE bytes_count + (CHOOSE e \in old : TRUE).bytes,
                 percentage |-> percentage]
    IN  [G EXCEPT
           !.languages = MergeOnly(G.languages, LanguageNodes(G, language),
                                   [name |-> language]),
           !.uses = MergeSet(G.uses, old, edge)]

(* One pass of the loop of import_languages: the statement of lines        *)
(* 119-134 for one language of the map.                                    *)
import_language(G, repo_full_name, language, bytes_count, percentage) ==
    IF RepoNodes(G, repo_full_name) = {} THEN G
    ELSE
    LET edge == [repo |-> repo_full_name, language |-> language,
                 bytes |-> bytes_count, percentage |-> percentage]
    IN  [G EXCEPT
           !.languages = MergeOnly(G.languages, LanguageNodes(G, language),
                                   [name |-> language]),
           !.uses = MergeSet(G.uses, UsesEdges(G, repo_full_name, language), edge)]

RECURSIVE import_languages_from(_, _, _, _, _)
import_languages_from(G, repo_full_name, languages, total_bytes, i) ==
    IF i > Len(languages) THEN G
    ELSE import_languages_from(
             import_language(G, repo_full_name, languages[i].language,
                             languages[i].bytes,
                             Percentage(languages[i].bytes, total_bytes)),
             repo_full_name, languages, total_bytes, i + 1)

import_languages(G, repo_full_name, languages) ==
    IF languages = <<>> THEN G
    ELSE import_languages_from(G, repo_full_name, languages,
                               SeqSum(Values(languages)), 1)

(* Lines 152-154: the languages of one repository, when it has any.        *)
import_repository_languages(G, repo) ==
    IF repo.languages # <<>>
    THEN import_languages(G, repo.full_name, repo.languages)
    ELSE G

RECURSIVE import_repositories_from(_, _, _, _)
import_repositories_from(G, repositories, login, i) ==
    IF i > Len(repositories) THEN G
    ELSE import_repositories_from(
             import_repository_languages(
                 import_repository(G, repositories[i], login), repositories[i]),
             repositories, login, i + 1)

import_complete_user_data(G, data, now) ==
    import_repositories_from(import_user(G, data.user, now),
                             data.repositories, data.user.login, 1)

(* The Cypher statements that import_complete_user_data issues for `data`, *)
(* in order, each with its parameters: one for the user, then per          *)
(* repository one for the Repo node and OWNS edge and one per language.    *)
LanguageStatements(repo_full_name, languages) ==
    [i \in DOMAIN languages |->
        [kind |-> "language", repo_full_name |-> repo_full_name,
         language |-> languages[i].language,
         bytes_count |-> languages[i].bytes,
         percentage |-> Percentage(languages[i].bytes, SeqSum(Values(languages)))]]

RECURSIVE RepositoryStatements(_, _, _)
RepositoryStatements(repositories, login, i) ==
    IF i > Len(repositories) THEN <<>>
    ELSE <<[kind |-> "repository", repo_data |-> repositories[i],
            username |-> login]>>
         \o LanguageStatements(repositories[i].full_name, repositories[i].languages)
         \o RepositoryStatements(repositories, login, i + 1)

Statements(data) ==
    <<[kind |-> "user", user_data |-> data.user]>>
    \o RepositoryStatements(data.repositories, data.user.login, 1)

(* One session.run: an auto-commit transaction.                            *)
Execute(G, statement, now) ==
    CASE statement.kind = "user" -> import_user(G, statement.user_data, now)
      [] statement.kind = "repository" ->
             import_repository(G, statement.repo_data, statement.username)
      [] statement.kind = "language" ->
             import_language(G, statement.repo_full_name, statement.language,
                             statement.bytes_count, statement.percentage)

(* Mutant: the statements of a run that raises are undone.                 *)
ExecuteUpTo_rolled_back(G, statements, n, now) == G

(* The first n statements, each committed as it is run.                    *)
RECURSIVE ExecuteUpTo(_, _, _, _)
ExecuteUpTo(G, statements, n, now) ==
    IF n = 0 THEN G
    ELSE Execute(ExecuteUpTo(G, statements, n - 1, now), statements[n], now)

(* Called with the data already fetched; the uniqueness constraints it     *)
(* creates change no node and no edge.                                     *)
import_github_user(G, username, github_data, now) ==
    import_complete_user_data(G, github_data, now)

----------------------------------------------------------------------------
(* The source (the GitHub REST API) as one request sees it.  A world `w`   *)
(* fixes what the source holds while one pipeline runs: the profile, the   *)
(* public repositories in listing order and, per repository, the answer of *)
(* its languages endpoint.  Each resource answers `limited` times with a   *)
(* rate-limit 403 before it gives its final answer.                        *)

UserRequest(username) ==
    [kind |-> "user", username |-> username, repo |-> Null, params |-> Null]
ReposRequest(username, per_page, page) ==
    [kind |-> "repos", username |-> username, repo |-> Null,
     params |-> [type |-> "public", sort |-> "updated",
                 per_page |-> per_page, page |-> page]]
LanguagesRequest(username, repo_name) ==
    [kind |-> "languages", username |-> username, repo |-> repo_name,
     params |-> Null]

RECURSIVE Digits(_)
Digits(n) ==
    LET d == <<"0", "1", "2", "3", "4", "5", "6", "7", "8", "9">>[(n % 10) + 1]
    IN  IF n < 10 THEN <<d>> ELSE Append(Digits(n \div 10), d)

(* The path of the url that requests.get is given, and the url as it       *)
(* appears in the text of an HTTPError (with the query string).            *)
PathText(req) ==
    CASE req.kind = "user" -> <<"/users/">> \o req.username
      [] req.kind = "repos" -> <<"/users/">> \o req.username \o <<"/repos">>
      [] req.kind = "languages" ->
             <<"/repos/">> \o req.username \o <<"/", req.repo, "/languages">>

UrlText(req) ==
    <<"https://api.github.com">> \o PathText(req) \o
    (IF req.kind # "repos" THEN <<>>
     ELSE <<"?type=public&sort=updated&per_page=">> \o Digits(req.params.per_page)
          \o <<"&page=">> \o Digits(req.params.page))

Page(w, per_page, page) ==
    SubSeq(w.repos, (page - 1) * per_page + 1, Min(page * per_page, Len(w.repos)))

RepoNamed(w, repo_name) == {i \in DOMAIN w.repos : w.repos[i].name = repo_name}

(* What the source holds for a request: how often it answers with a rate   *)
(* limit first, the status of its final answer and the body of a 200.      *)
Resource(w, req) ==
    CASE req.kind = "user" ->
             [limited |-> w.profile.limited, status |-> w.profile.status,
              json |-> [login |-> w.login, public_repos |-> Len(w.repos)]]
      [] req.kind = "repos" ->
             [limited |-> w.listing.limited, status |-> w.listing.status,
              json |-> Page(w, req.params.per_page, req.params.page)]
      [] req.kind = "languages" ->
             IF RepoNamed(w, req.repo) = {}
             THEN [limited |-> 0, status |-> 404, json |-> <<>>]
             ELSE LET i == CHOOSE j \in RepoNamed(w, req.repo) :
                               \A k \in RepoNamed(w, req.repo) : j <= k
                  IN  [limited |-> w.repos[i].languages.limited,
                       status |-> w.repos[i].languages.status,
                       json |-> w.repos[i].languages.body]

(* status 0: no HTTP response at all (a connection error).                 *)
Answer(w, r, attempt) ==
    IF attempt <= r.limited
    THEN [status |-> 403, rate_limit |-> TRUE, reset_in |-> w.reset_in,
          json |-> Null]
    ELSE [status |-> r.status, rate_limit |-> FALSE, reset_in |-> 0,
          json |-> IF r.status = 200 THEN r.json ELSE Null]

Respond(w, req, attempt) == Answer(w, Resource(w, req), attempt)

(* str(e) of the requests exception: raise_for_status() names the status   *)
(* and the url, a connection error names host, port and path.              *)
RequestExceptionText(req, response) ==
    IF response.status = 0
    THEN <<"HTTPSConnectionPool(host='api.github.com', port=", "4", "4", "3",
           "): Max retries exceeded with url: ">> \o PathText(req)
    ELSE Digits(response.status) \o <<" Error for url: ">> \o UrlText(req)

----------------------------------------------------------------------------
(* fetch_github.py                                                         *)

(* What _make_request returns or raises for a response that is no rate     *)
(* limit (lines 34-38).                                                    *)
Returned(req, response) ==
    IF response.status = 200
    THEN [ok |-> TRUE, json |-> response.json, error |-> <<>>,
          issued |-> <<req>>, sleeps |-> <<>>]
    ELSE [ok |-> FALSE, json |-> Null,
          error |-> <<"GitHub API request failed: ">>
                    \o RequestExceptionText(req, response),
          issued |-> <<req>>, sleeps |-> <<>>]

(* Mutant: a rate-limit response is raised like any other failed status.   *)
_make_request_no_retry(w, req, attempt) ==
    Returned(req, Respond(w, req, attempt))

(* The request and the sleep of this attempt, before what the retry did.   *)
Retried(req, sleep_time, rest) ==
    [rest EXCEPT !.issued = <<req>> \o @, !.sleeps = <<sleep_time>> \o @]

(* The `attempt`-th requests.get of one _make_request call and everything  *)
(* after it.  Result: ok/json or the raised error, the requests issued and *)
(* the sleeps made, in order.                                              *)
RECURSIVE _make_request_from(_, _, _)
RECURSIVE OnResponse(_, _, _, _)
OnResponse(w, req, attempt, response) ==
    IF response.status = 403 /\ response.rate_limit
    THEN Retried(req, Max(0, response.reset_in + 1),
                 _make_request_from(w, req, attempt + 1))
    ELSE Returned(req, response)

_make_request_from(w, req, attempt) ==
    OnResponse(w, req, attempt, Respond(w, req, attempt))

_make_request(w, req) == _make_request_from(w, req, 1)

(* "404" in str(e)                                                         *)
Contains(text, part) ==
    \E i \in 1..(Len(text) - Len(part) + 1) :
        SubSeq(text, i, i + Len(part) - 1) = part

(* Lines 46-64, given what the profile request returned or raised.         *)
UserInfo(username, call) ==
    IF call.ok
    THEN [ok |-> TRUE,
          user |-> [login |-> call.json.login,
                    public_repos |-> call.json.public_repos],
          error |-> <<>>, calls |-> <<call>>]
    ELSE [ok |-> FALSE, user |-> Null,
          error |-> IF Contains(call.error, <<"4", "0", "4">>)
                    THEN <<"User '">> \o username \o <<"' not found">>
                    ELSE call.error,
          calls |-> <<call>>]

get_user_info(w, username) ==
    UserInfo(username, _make_request(w, UserRequest(username)))

NormalizeRepo(repo) ==
    [name |-> repo.name, full_name |-> repo.full_name, stars |-> repo.stars,
     is_fork |-> repo.fork]

Normalized(repos_data) ==
    [i \in DOMAIN repos_data |-> NormalizeRepo(repos_data[i])]

(* Mutant: a full page is taken for the last one.                          *)
OnPage_stop_on_full(w, username, per_page, page, repositories, calls, call) ==
    IF ~call.ok
    THEN [ok |-> FALSE, repositories |-> <<>>, error |-> call.error,
          calls |-> Append(calls, call)]
    ELSE [ok |-> TRUE, repositories |-> repositories \o Normalized(call.json),
          error |-> <<>>, calls |-> Append(calls, call)]

(* One pass of the while loop of get_user_repositories, given what the     *)
(* request of this page returned or raised.                                *)
RECURSIVE get_user_repositories_from(_, _, _, _, _, _)
RECURSIVE OnPage(_, _, _, _, _, _, _)
OnPage(w, username, per_page, page, repositories, calls, call) ==
    IF ~call.ok
    THEN [ok |-> FALSE, repositories |-> <<>>, error |-> call.error,
          calls |-> Append(calls, call)]
    ELSE IF call.json = <<>>
    THEN [ok |-> TRUE, repositories |-> repositories, error |-> <<>>,
          calls |-> Append(calls, call)]
    ELSE IF Len(call.json) < per_page
    THEN [ok |-> TRUE, repositories |-> repositories \o Normalized(call.json),
          error |-> <<>>, calls |-> Append(calls, call)]
    ELSE get_user_repositories_from(w, username, per_page, page + 1,
                                    repositories \o Normalized(call.json),
                                    Append(calls, call))

get_user_repositories_from(w, username, per_page, page, repositories, calls) ==
    OnPage(w, username, per_page, page, repositories, calls,
           _make_request(w, ReposRequest(username, per_page, page)))

get_user_repositories(w, username, per_page) ==
    get_user_repositories_from(w, username, per_page, 1, <<>>, <<>>)

(* Lines 117-121: never raises, any failure of the request yields the      *)
(* empty map.                                                              *)
Languages_or_empty(call) ==
    [raised |-> FALSE,
     languages |-> IF call.ok THEN call.json ELSE <<>>,
     calls |-> <<call>>]

get_repository_languages(w, username, repo_name) ==
    Languages_or_empty(_make_request(w, LanguagesRequest(username, repo_name)))

WithLanguages(repo, languages) ==
    [name |-> repo.name, full_name |-> repo.full_name, stars |-> repo.stars,
     is_fork |-> repo.is_fork, languages |-> languages]

(* Lines 140-145 for one non-fork repository, given what                   *)
(* get_repository_languages returned or raised: the map to store, the      *)
(* calls made and the warning printed, if any.                             *)
TryLanguages(repo, got) ==
    IF got.raised
    THEN [languages |-> <<>>, calls |-> got.calls, warnings |-> <<repo.name>>]
    ELSE [languages |-> got.languages, calls |-> got.calls, warnings |-> <<>>]

(* Lines 139-147 for one repository.                                       *)
RepositoryLanguages(w, username, repo) ==
    IF ~repo.is_fork
    THEN TryLanguages(repo, get_repository_languages(w, username, repo.name))
    ELSE [languages |-> <<>>, calls |-> <<>>, warnings |-> <<>>]

(* The loop of fetch_user_data over the repositories (lines 138-147).      *)
RECURSIVE fetch_languages_from(_, _, _, _, _, _)
RECURSIVE OnLanguages(_, _, _, _, _, _, _)
OnLanguages(w, username, repositories, i, calls, warnings, one) ==
    fetch_languages_from(
        w, username,
        [repositories EXCEPT ![i] = WithLanguages(@, one.languages)],
        i + 1, calls \o one.calls, warnings \o one.warnings)

fetch_languages_from(w, username, repositories, i, calls, warnings) ==
    IF i > Len(repositories)
    THEN [repositories |-> repositories, calls |-> calls, warnings |-> warnings]
    ELSE OnLanguages(w, username, repositories, i, calls, warnings,
                     RepositoryLanguages(w, username, repositories[i]))

Fetched(info, filled) ==
    [ok |-> TRUE,
     data |-> [user |-> info.user, repositories |-> filled.repositories],
     error |-> <<>>, calls |-> filled.calls, warnings |-> filled.warnings]

(* fetch_user_data from line 134 on, and from line 138 on.                 *)
AfterListing(w, username, info, listing) ==
    IF ~listing.ok
    THEN [ok |-> FALSE, data |-> Null, error |-> listing.error,
          calls |-> info.calls \o listing.calls, warnings |-> <<>>]
    ELSE Fetched(info,
                 fetch_languages_from(w, username, listing.repositories, 1,
                                      info.calls \o listing.calls, <<>>))

AfterUserInfo(w, username, info) ==
    IF ~info.ok
    THEN [ok |-> FALSE, data |-> Null, error |-> info.error,
          calls |-> info.calls, warnings |-> <<>>]
    ELSE AfterListing(w, username, info,
                      get_user_repositories(w, username, PerPage))

fetch_user_data(w, username) ==
    AfterUserInfo(w, username, get_user_info(w, username))

----------------------------------------------------------------------------
(* The read queries of neo4j_import.py.                                    *)

RECURSIVE SumBytes(_)
SumBytes(S) ==
    IF S = {} THEN 0
    ELSE LET x == CHOOSE y \in S : TRUE IN x.bytes + SumBytes(S \ {x})

RECURSIVE SumPercentage(_)
SumPercentage(S) ==
    IF S = {} THEN Zero
    ELSE LET x == CHOOSE y \in S : TRUE
         IN  QAdd(x.percentage, SumPercentage(S \ {x}))

(* The Repo nodes that an OWNS edge links to a User node with this login.  *)
OwnedRepos(G, username) ==
    {r \in BagToSet(G.repos) : OwnsEdges(G, username, r.full_name) # {}}

NotFound == [found |-> FALSE]

(* collect(DISTINCT {language, percentage, bytes}), nulls dropped          *)
CollectedLanguages(G, owned) ==
    {[language |-> e.language, percentage |-> e.percentage, bytes |-> e.bytes] :
        e \in {x \in BagToSet(G.uses) : \E r \in owned : r.full_name = x.repo}}

(* Lines 199-219 for one language: `of` are its collected entries and      *)
(* `lang_percentages` those with a percentage that is not 0.               *)
LanguageStat(of, lang_percentages) ==
    [total_bytes |-> SumBytes(of),
     repo_count |-> Cardinality(of),
     avg_percentage |->
         IF lang_percentages # {}
         THEN QDiv(SumPercentage(lang_percentages), Cardinality(lang_percentages))
         ELSE Zero]

LanguageStats(languages) ==
    [lang_name \in {lang.language : lang \in languages} |->
        LanguageStat({lang \in languages : lang.language = lang_name},
                     {lang \in languages : lang.language = lang_name
                                           /\ lang.percentage # Zero})]

UserStats(G, u, owned) ==
    [found |-> TRUE,
     username |-> u.login,
     total_repos_github |-> u.public_repos,
     repos_analyzed |-> CountIn(G.repos, owned),
     repositories |-> owned,
     language_stats |-> LanguageStats(CollectedLanguages(G, owned))]

get_user_stats(G, username) ==
    IF UserNodes(G, username) = {} THEN NotFound
    ELSE UserStats(G, CHOOSE n \in UserNodes(G, username) : TRUE,
                   OwnedRepos(G, username))

(* WHERE NOT r.is_fork                                                     *)
TopCandidates(G, username) ==
    {r \in OwnedRepos(G, username) : ~r.is_fork}

(* Mutant: ORDER BY r.stars without DESC.                                  *)
OrderedByStars_ascending(S) ==
    {s \in [1..Cardinality(S) -> S] :
        /\ \A i, j \in DOMAIN s : i # j => s[i] # s[j]
        /\ \A i, j \in DOMAIN s : i < j => s[i].stars <= s[j].stars}

(* ORDER BY r.stars DESC: the store may return equal stars in any order.   *)
OrderedByStars(S) ==
    {s \in [1..Cardinality(S) -> S] :
        /\ \A i, j \in DOMAIN s : i # j => s[i] # s[j]
        /\ \A i, j \in DOMAIN s : i < j => s[i].stars >= s[j].stars}

TopEntry(r) == [name |-> r.name, full_name |-> r.full_name, stars |-> r.stars]

(* Every result the query can give: ORDER BY, then LIMIT $limit.           *)
get_top_repositories(G, username, limit) ==
    {[i \in 1..Min(limit, Len(s)) |-> TopEntry(s[i])] :
        s \in OrderedByStars(TopCandidates(G, username))}

----------------------------------------------------------------------------
(* The inputs: what the source can hold.                                   *)

Lower(c) == IF c = "A" THEN "a" ELSE c
Fold(username) == [i \in DOMAIN username |-> Lower(username[i])]

(* The accounts of the source; it looks a login up without regard to case  *)
(* and answers with the login as registered.                               *)
Accounts == {<<"a">>, <<"4", "0", "4">>}
SourceLogin(username) == CHOOSE l \in Accounts : Fold(l) = Fold(username)

Repositories == {[name |-> "x", full_name |-> "a/x"],
                 [name |-> "y", full_name |-> "a/y"]}

RECURSIVE Compact(_, _)
Compact(choice, i) ==
    IF i > Len(Languages) THEN <<>>
    ELSE (IF choice[i] < 0 THEN <<>>
          ELSE <<[language |-> Languages[i], bytes |-> choice[i]]>>)
         \o Compact(choice, i + 1)

(* The language maps over the first n languages with byte counts in B.     *)
LanguageMaps(n, B) ==
    {Compact(choice, 1) :
        choice \in [1..Len(Languages) -> B \cup {-1}] \cap
                   {c \in [1..Len(Languages) -> B \cup {-1}] :
                       \A i \in DOMAIN c : i > n => c[i] = -1}}

Endpoint(K, failures, bodies) ==
    {[limited |-> k, status |-> 200, body |-> b] : k \in 0..K, b \in bodies}
    \cup {[limited |-> k, status |-> s, body |-> <<>>] : k \in 0..K, s \in failures}

RawRepos(stars, answers) ==
    {[name |-> r.name, full_name |-> r.full_name, stars |-> n, fork |-> FALSE,
      languages |-> a] : r \in Repositories, n \in stars, a \in answers}
    \cup
    {[name |-> r.name, full_name |-> r.full_name, stars |-> n, fork |-> TRUE,
      languages |-> [limited |-> 0, status |-> 200, body |-> <<>>]] :
        r \in Repositories, n \in stars}

RepoLists(R, n) ==
    UNION {{s \in [1..k -> R] :
               \A i, j \in 1..k : i # j => s[i].full_name # s[j].full_name} :
           k \in 0..n}

Worlds(username, profiles, listings, lists, resets) ==
    {[login |-> SourceLogin(username), profile |-> p, listing |-> l,
      repos |-> rs, reset_in |-> t] :
        p \in profiles, l \in listings, rs \in lists, t \in resets}

Answers(K, failures) ==
    {[limited |-> k, status |-> s] : k \in 0..K, s \in {200} \cup failures}

----------------------------------------------------------------------------
(* app.py: POST /api/analyze/<username>, and the two read routes.          *)

StripTime(G) ==
    {[login |-> n.login, public_repos |-> n.public_repos, copies |-> G.users[n]] :
        n \in BagToSet(G.users)}
SameButLastAnalyzed(G, H) ==
    /\ StripTime(G) = StripTime(H)
    /\ G.repos = H.repos /\ G.languages = H.languages
    /\ G.owns = H.owns /\ G.uses = H.uses

(* Lines 57-72: the response once the import has left the store as G.     *)
Analysis(username, data, G) ==
    /\ g' = G
    /\ \E top \in get_top_repositories(G, username, TopLimit) :
         last' = [op |-> "analyze", username |-> username,
                  status |-> 200, success |-> TRUE,
                  data |-> data,
                  repeat |-> /\ last.op = "analyze"
                             /\ last.success
                             /\ last.username = username
                             /\ last.data = data,
                  user_stats |-> get_user_stats(G, username),
                  top_repositories |-> top]

(* Mutant: the User node is written before the fetch is known to have     *)
(* succeeded.                                                              *)
AfterFetch_user_first(username, github_data, now) ==
    IF ~github_data.ok
    THEN /\ g' = import_user(g, [login |-> username, public_repos |-> 0], now)
         /\ last' = [op |-> "analyze", username |-> username,
                     status |-> 400, success |-> FALSE,
                     error |-> github_data.error]
    ELSE Analysis(username, github_data.data,
                  import_github_user(g, username, github_data.data, now))

(* Lines 54-79, given what fetch_user_data returned or raised.             *)
AfterFetch(username, github_data, now) ==
    IF ~github_data.ok
    THEN /\ g' = g
         /\ last' = [op |-> "analyze", username |-> username,
                     status |-> 400, success |-> FALSE,
                     error |-> github_data.error]
    ELSE Analysis(username, github_data.data,
                  import_github_user(g, username, github_data.data, now))

analyze_user(username, w, now) ==
    /\ UNCHANGED <<fetched, runs>>
    /\ AfterFetch(username, fetch_user_data(w, username), now)

user_stats(username) ==
    /\ last' = [op |-> "stats", username |-> username,
                user_stats |-> get_user_stats(g, username)]
    /\ UNCHANGED <<g, fetched, runs>>

user_repositories(username, limit) ==
    /\ \E top \in get_top_repositories(g, username, limit) :
         last' = [op |-> "repositories", username |-> username,
                  limit |-> limit, repositories |-> top]
    /\ UNCHANGED <<g, fetched, runs>>

(* analyze_user when the graph store fails the fault-th statement of the   *)
(* import: session.run raises, nothing catches it before                   *)
(* import_github_user logs and re-raises, and the route answers 400.       *)
(* The response is kept with what the request had fetched and with the     *)
(* statement that failed.                                                  *)
StoreFailure(username, data, fault, now) ==
    /\ fault \in DOMAIN Statements(data)
    /\ g' = ExecuteUpTo(g, Statements(data), fault - 1, now)
    /\ last' = [op |-> "analyze", username |-> username,
                status |-> 400, success |-> FALSE,
                error |-> <<"ServiceUnavailable">>,
                data |-> data, fault |-> fault]

AfterFetchStoreFailure(username, github_data, fault, now) ==
    /\ github_data.ok
    /\ StoreFailure(username, github_data.data, fault, now)

analyze_user_store_failure(username, w, fault, now) ==
    /\ UNCHANGED <<fetched, runs>>
    /\ AfterFetchStoreFailure(username, fetch_user_data(w, username), fault, now)

(* Analyze requests in progress at the same time (threads of app.run, or   *)
(* the import script beside the server), against the one graph store.      *)
(* Each session.run is one atomic step; the requests interleave between    *)
(* statements.  begin: the fetch is done and the import is about to start. *)
Begun(r, username, github_data) ==
    IF ~github_data.ok
    THEN /\ runs' = [runs EXCEPT ![r] = [pc |-> "done", username |-> username,
                                         success |-> FALSE]]
         /\ last' = [op |-> "analyze", username |-> username,
                     status |-> 400, success |-> FALSE,
                     error |-> github_data.error]
    ELSE /\ runs' = [runs EXCEPT ![r] =
                        [pc |-> "import", username |-> username,
                         data |-> github_data.data,
                         statements |-> Statements(github_data.data),
                         next |-> 1]]
         /\ last' = last

begin(r, username, w) ==
    /\ runs[r].pc = "idle"
    /\ Begun(r, username, fetch_user_data(w, username))
    /\ UNCHANGED <<g, fetched>>

(* The next statement of the import of request r.                          *)
run_statement(r, now) ==
    /\ runs[r].pc = "import"
    /\ runs[r].next <= Len(runs[r].statements)
    /\ g' = Execute(g, runs[r].statements[runs[r].next], now)
    /\ runs' = [runs EXCEPT ![r].next = @ + 1]
    /\ UNCHANGED <<last, fetched>>

(* The import of request r is complete: read the stats and answer.         *)
respond(r) ==
    /\ runs[r].pc = "import"
    /\ runs[r].next > Len(runs[r].statements)
    /\ Analysis(runs[r].username, runs[r].data, g)
    /\ runs' = [runs EXCEPT ![r] = [pc |-> "done", username |-> runs[r].username,
                                    success |-> TRUE, data |-> runs[r].data]]
    /\ fetched' = fetched

(* GET /api/network/graph/<username>.  The rows of the MATCH: a User node  *)
(* with the login, a Repo it OWNS and a USES_LANGUAGE edge of that Repo.   *)
NetworkRows(G, username) ==
    {row \in {[u |-> u, r |-> r, rel |-> rel] :
                 u \in UserNodes(G, username), r \in OwnedRepos(G, username),
                 rel \in BagToSet(G.uses)} :
        row.rel.repo = row.r.full_name}

(* The map that RETURN builds from the rows: five collect(DISTINCT ...).   *)
NetworkGraph(rows) ==
    [nodes |->
        {[id |-> row.u.login, type |-> "user"] : row \in rows}
        \cup {[id |-> row.r.full_name, label |-> row.r.name, type |-> "repo",
               stars |-> row.r.stars] : row \in rows}
        \cup {[id |-> row.rel.language, type |-> "language"] : row \in rows},
     edges |->
        {[source |-> row.u.login, target |-> row.r.full_name, type |-> "owns"] :
            row \in rows}
        \cup {[source |-> row.r.full_name, target |-> row.rel.language,
               type |-> "uses", weight |-> row.rel.percentage] : row \in rows}]

(* The result of the query.  Its RETURN holds aggregations only and no     *)
(* grouping key, so it yields one row whatever the MATCH found, the row of *)
(* no match holding empty lists.                                           *)
NetworkResult(G, username) ==
    {[graph |-> NetworkGraph(NetworkRows(G, username))]}

NetworkResponse(username, result) ==
    IF result = {}
    THEN last' = [op |-> "graph", username |-> username, status |-> 404,
                  success |-> FALSE]
    ELSE \E record \in result :
           last' = [op |-> "graph", username |-> username, status |-> 200,
                    success |-> TRUE, data |-> record.graph]

get_user_network_graph(username) ==
    /\ NetworkResponse(username, NetworkResult(g, username))
    /\ UNCHANGED <<g, fetched, runs>>

(* GitHubAPIClient.get_user_repositories called on its own with a page     *)
(* size.                                                                   *)
list_repositories(username, w, per_page) ==
    /\ fetched' = [op |-> "list", username |-> username, world |-> w,
                   per_page |-> per_page,
                   result |-> get_user_repositories(w, username, per_page)]
    /\ UNCHANGED <<g, last, runs>>

(* fetch_github.py run on its own (its __main__).                          *)
fetch(username, w) ==
    /\ fetched' = [op |-> "fetch", username |-> username, world |-> w,
                   result |-> fetch_user_data(w, username)]
    /\ UNCHANGED <<g, last, runs>>

----------------------------------------------------------------------------
(* The requests that may be in progress at once.                           *)
Requests == {1, 2}

Init ==
    /\ g = EmptyGraph /\ last = [op |-> "none"] /\ fetched = [op |-> "none"]
    /\ runs = [r \in Requests |-> [pc |-> "idle"]]

Times == 1..MaxTime
Stars == 0..MaxStars
Plain == {[limited |-> 0, status |-> 200]}

(* The requests against the graph store, for usernames U, clock readings T *)
(* and the source behaviours W[username].                                  *)
Serve(U, T, W) ==
    \/ \E username \in U, now \in T :
         \E w \in W[username] : analyze_user(username, w, now)
    \/ \E username \in U : user_stats(username)
    \/ \E username \in U, limit \in 0..MaxLimit :
         user_repositories(username, limit)

(* Spec: every login; repositories with stars and forks, no languages;     *)
(* the profile may be missing at the source.                               *)
SpecWorlds ==
    [username \in Usernames |->
        Worlds(username, Plain, Plain,
               RepoLists(RawRepos(Stars, Endpoint(0, {}, {<<>>})), MaxRepos),
               {0})
        \cup Worlds(username, Answers(0, {404}) \ Plain, Plain, {<<>>}, {0})]

Next == Serve(Usernames, {1}, SpecWorlds)

Spec == Init /\ [][Next]_vars

(* LangSpec: one account and one repository, re-analysed while its         *)
(* language map changes, its languages request fails or it turns a fork.   *)
OneRepo(R) == {r \in R : r.full_name = "a/x"}

LangWorlds ==
    [username \in {<<"a">>} |->
        Worlds(username, Plain, Plain,
               RepoLists(OneRepo(RawRepos({0}, Endpoint(0, {500},
                                     LanguageMaps(2, 1..MaxBytes)))), MaxRepos),
               {0})]

LangNext == Serve({<<"a">>}, Times, LangWorlds)

LangSpec == Init /\ [][LangNext]_vars

(* ByteSpec: as LangSpec, and a language may be reported with 0 bytes.     *)
ByteWorlds ==
    [username \in {<<"a">>} |->
        Worlds(username, Plain, Plain,
               RepoLists(OneRepo(RawRepos({0}, Endpoint(0, {},
                                     LanguageMaps(2, 0..MaxBytes)))), MaxRepos),
               {0})]

ByteNext == Serve({<<"a">>}, {1}, ByteWorlds)

ByteSpec == Init /\ [][ByteNext]_vars

(* FetchSpec: the fetch layer alone, run once as a script, against a       *)
(* source that rate-limits, fails and answers.                             *)
FetchWorlds ==
    [username \in Usernames |->
        Worlds(username,
               Answers(MaxRateLimited, {0, 403, 404, 500}),
               Answers(MaxRateLimited, {500}),
               RepoLists(RawRepos({0}, Endpoint(MaxRateLimited, {500},
                                                LanguageMaps(1, {1}))),
                         MaxRepos),
               {-3, 5})]

FetchNext ==
    /\ fetched.op = "none"
    /\ \E username \in Usernames :
         \E w \in FetchWorlds[username] : fetch(username, w)

FetchSpec == Init /\ [][FetchNext]_vars

(* StatsSpec: one account whose two repositories are listed one at a time, *)
(* each with a language map, so that the graph comes to hold several       *)
(* repositories of one owner that use the same language.                   *)
StatsWorlds ==
    [username \in {<<"a">>} |->
        Worlds(username, Plain, Plain,
               RepoLists(RawRepos({0}, Endpoint(0, {}, LanguageMaps(2, {1}))),
                         MaxRepos),
               {0})]

StatsNext == Serve({<<"a">>}, {1}, StatsWorlds)

StatsSpec == Init /\ [][StatsNext]_vars

(* FailSpec: one account analysed again and again against a source whose   *)
(* profile request and repository listing rate-limit, fail or answer.      *)
FailWorlds ==
    [username \in {<<"a">>} |->
        Worlds(username,
               Answers(1, {0, 404, 500}),
               Answers(1, {500}),
               RepoLists(RawRepos({0}, Endpoint(0, {}, {<<>>})), MaxRepos),
               {0})]

FailNext == Serve({<<"a">>}, {1}, FailWorlds)

FailSpec == Init /\ [][FailNext]_vars

(* GraphSpec: as StatsSpec, with the network-graph route asked for the     *)
(* analysed login and for a login that is never analysed.                  *)
GraphNext ==
    \/ StatsNext
    \/ \E username \in {<<"a">>, <<"4", "0", "4">>} :
         get_user_network_graph(username)

GraphSpec == Init /\ [][GraphNext]_vars

(* UpsertSpec: one account with up to MaxBatch repositories in a listing,  *)
(* each without languages or with two; the store may fail any statement of *)
(* an import.                                                              *)
UpsertWorlds ==
    [username \in {<<"a">>} |->
        Worlds(username, Plain, Plain,
               RepoLists({r \in RawRepos({0}, Endpoint(0, {},
                                 {m \in LanguageMaps(2, {1}) : Len(m) # 1})) :
                             ~r.fork},
                         MaxBatch),
               {0})]

UpsertNext ==
    \/ \E w \in UpsertWorlds[<<"a">>] : analyze_user(<<"a">>, w, 1)
    \/ \E w \in UpsertWorlds[<<"a">>], fault \in 1..MaxStatements :
         analyze_user_store_failure(<<"a">>, w, fault, 1)

UpsertSpec == Init /\ [][UpsertNext]_vars

(* PageSpec: the repository listing alone, with page sizes 1..MaxPerPage, *)
(* against a source that holds up to MaxListed repositories in any order   *)
(* and may answer each page with a rate limit first.                       *)
PageRepositories ==
    {[name |-> "p", full_name |-> "a/p"], [name |-> "q", full_name |-> "a/q"],
     [name |-> "r", full_name |-> "a/r"], [name |-> "s", full_name |-> "a/s"],
     [name |-> "t", full_name |-> "a/t"]}

PageRawRepos ==
    {[name |-> r.name, full_name |-> r.full_name, stars |-> 0, fork |-> FALSE,
      languages |-> [limited |-> 0, status |-> 200, body |-> <<>>]] :
        r \in PageRepositories}

PageWorlds ==
    Worlds(<<"a">>, Plain, Answers(1, {}), RepoLists(PageRawRepos, MaxListed), {0})

PageNext ==
    /\ fetched.op = "none"
    /\ \E w \in PageWorlds, per_page \in 1..MaxPerPage :
         list_repositories(<<"a">>, w, per_page)

PageSpec == Init /\ [][PageNext]_vars

(* ConcSpec: two analyze requests, for the same login or for two logins    *)
(* whose listings name the same repository, with their statements          *)
(* interleaved in every order.                                             *)
ConcUsernames == {<<"a">>, <<"4", "0", "4">>}

ConcWorlds ==
    [username \in ConcUsernames |->
        Worlds(username, Plain, Plain,
               RepoLists(OneRepo(RawRepos({0}, Endpoint(0, {},
                                     LanguageMaps(2, 1..MaxBytes)))), MaxRepos),
               {0})]

ConcNext ==
    \/ \E r \in Requests, username \in ConcUsernames :
         \E w \in ConcWorlds[username] : begin(r, username, w)
    \/ \E r \in Requests : run_statement(r, 1)
    \/ \E r \in Requests : respond(r)

ConcSpec == Init /\ [][ConcNext]_vars

----------------------------------------------------------------------------
(* Properties.                                                             *)

Analyzed == last.op = "analyze" /\ last.success

(* The USES_LANGUAGE edges of a repository, and the sum of the percentage  *)
(* values over a set of edges of bag B, each counted as often as it occurs.*)
UsesOf(G, full_name) == {e \in BagToSet(G.uses) : e.repo = full_name}

RECURSIVE PercentageSum(_, _)
PercentageSum(B, S) ==
    IF S = {} THEN Zero
    ELSE LET x == CHOOSE y \in S : TRUE
         IN  QAdd(Q(x.percentage.num * CopiesIn(x, B), x.percentage.den),
                  PercentageSum(B, S \ {x}))

Incoming(G, full_name) == {e \in BagToSet(G.owns) : e.repo = full_name}

(* C1: a pipeline run that repeats the run before it (same login, same     *)
(* fetched data) leaves every node, edge and attribute of the graph as the *)
(* first run left it, except User.last_analyzed.                           *)
C1_Idempotent ==
    [][(last'.op = "analyze" /\ last'.success /\ last'.repeat)
          => SameButLastAnalyzed(g, g')]_vars

C1_Witness ==
    /\ Analyzed /\ last.repeat
    /\ \E i \in DOMAIN last.data.repositories :
         Len(last.data.repositories[i].languages) = 2

(* The percentage values that import_languages wrote for language map      *)
(* `languages` of repository `full_name`, summed.                          *)
WrittenSum(G, full_name, languages) ==
    PercentageSum(G.uses,
        {e \in UsesOf(G, full_name) :
            \E i \in DOMAIN languages : languages[i].language = e.language})

(* C2 as stated: for every non-empty language map passed to                *)
(* import_languages, the percentages written for that repository sum to    *)
(* 100.                                                                    *)
C2_SumsTo100 ==
    Analyzed =>
        \A i \in DOMAIN last.data.repositories :
            LET repo == last.data.repositories[i]
            IN  repo.languages # <<>> =>
                    WrittenSum(g, repo.full_name, repo.languages) = Hundred

(* C2 amended: for every non-empty language map whose byte counts sum to a *)
(* positive total, the percentages written for that repository sum to 100; *)
(* when every byte count is 0, every percentage written is 0.              *)
C2_SumsTo100IfPositive ==
    Analyzed =>
        \A i \in DOMAIN last.data.repositories :
            LET repo == last.data.repositories[i]
                total == SeqSum(Values(repo.languages))
            IN  repo.languages # <<>> =>
                    WrittenSum(g, repo.full_name, repo.languages) =
                        IF total > 0 THEN Hundred ELSE Zero

C2_Witness ==
    /\ Analyzed
    /\ \E i \in DOMAIN last.data.repositories :
         LET languages == last.data.repositories[i].languages
         IN  /\ Len(languages) = 2
             /\ languages[1].bytes > 0 /\ languages[2].bytes > 0
             /\ languages[1].bytes # languages[2].bytes

(* C3: after a successful analyze request for a login string,              *)
(* get_user_stats called with that same string returns data, and its       *)
(* repos_analyzed is the number of Repo nodes the User node OWNS.          *)
C3_StatsAfterAnalyze ==
    Analyzed =>
        /\ last.user_stats.found
        /\ last.user_stats.repos_analyzed =
               Cardinality({r \in BagToSet(g.repos) :
                   \E e \in BagToSet(g.owns) :
                       e.user = last.username /\ e.repo = r.full_name})

(* C4: get_top_repositories(login, limit) returns at most limit entries,   *)
(* each a Repo that the login OWNS with is_fork = false, in non-increasing *)
(* order of stars.                                                         *)
TopOk(result, username, limit) ==
    /\ Len(result) <= limit
    /\ \A i \in DOMAIN result :
         \E r \in BagToSet(g.repos), e \in BagToSet(g.owns) :
            /\ r.full_name = result[i].full_name /\ r.stars = result[i].stars
            /\ e.user = username /\ e.repo = r.full_name
            /\ r.is_fork = FALSE
    /\ \A i, j \in DOMAIN result : i < j => result[i].stars >= result[j].stars

C4_TopRepositories ==
    /\ last.op = "repositories" =>
           TopOk(last.repositories, last.username, last.limit)
    /\ Analyzed => TopOk(last.top_repositories, last.username, TopLimit)

C4_Witness ==
    /\ last.op = "repositories"
    /\ Len(last.repositories) = 2
    /\ last.repositories[1].stars > last.repositories[2].stars

(* C5: after a successful analyze run in which a repository's language map *)
(* is empty, that Repo node has no USES_LANGUAGE edge and adds nothing to  *)
(* the language_stats of its owner, whatever runs came before.             *)
C5_EmptyMapNoEdges ==
    Analyzed =>
        \A i \in DOMAIN last.data.repositories :
            LET repo == last.data.repositories[i]
                login == last.data.user.login
                rest == [g EXCEPT !.uses = Without(g.uses, UsesOf(g, repo.full_name))]
            IN  repo.languages = <<>> =>
                    /\ UsesOf(g, repo.full_name) = {}
                    /\ get_user_stats(g, login).language_stats =
                           get_user_stats(rest, login).language_stats

(* The calls of _make_request that the last fetch made.                    *)
Calls == fetched.result.calls

(* C6: a rate-limit 403 is never raised: _make_request sleeps and issues   *)
(* the identical request again, and when the rate-limited responses are    *)
(* followed by a 200 it returns the data of the resource first asked for.  *)
C6_RateLimitRecovered ==
    fetched.op = "fetch" =>
        /\ Calls[1].issued[1] = UserRequest(fetched.username)
        /\ \A c \in DOMAIN Calls :
             LET call == Calls[c]
                 resource == Resource(fetched.world, call.issued[1])
             IN  /\ Len(call.issued) = resource.limited + 1
                 /\ \A i \in DOMAIN call.issued : call.issued[i] = call.issued[1]
                 /\ Len(call.sleeps) = resource.limited
                 /\ \A i \in DOMAIN call.sleeps :
                      call.sleeps[i] = Max(0, fetched.world.reset_in + 1)
                 /\ resource.status = 200 =>
                        call.ok /\ call.json = resource.json

C6_Witness ==
    /\ fetched.op = "fetch"
    /\ \E c \in DOMAIN Calls :
         /\ Len(Calls[c].issued) = 3
         /\ Calls[c].issued[1].kind = "repos"
         /\ Calls[c].ok /\ Calls[c].json # <<>>

(* C7: when one repository's languages request fails, fetch_user_data      *)
(* still returns normally with every repository, gives that repository an  *)
(* empty language map, surfaces a warning for it and asks the languages of *)
(* every non-fork repository.                                              *)
C7_LanguageFailureWarned ==
    (/\ fetched.op = "fetch"
     /\ fetched.world.profile.status = 200
     /\ fetched.world.listing.status = 200) =>
        /\ fetched.result.ok
        /\ Len(fetched.result.data.repositories) = Len(fetched.world.repos)
        /\ \A i \in DOMAIN fetched.world.repos :
             LET raw == fetched.world.repos[i]
                 repo == fetched.result.data.repositories[i]
             IN  /\ repo.full_name = raw.full_name
                 /\ ~raw.fork =>
                      \E c \in DOMAIN Calls :
                          Calls[c].issued[1] =
                              LanguagesRequest(fetched.username, raw.name)
                 /\ (~raw.fork /\ raw.languages.status # 200) =>
                      /\ repo.languages = <<>>
                      /\ \E k \in DOMAIN fetched.result.warnings :
                            fetched.result.warnings[k] = raw.name

(* C8: get_user_info raises "User '<login>' not found" exactly when the    *)
(* source answers the profile request with 404; every other failure of the *)
(* request is raised as the generic failure that carries the cause.        *)
UserNotFound(username) == <<"User '">> \o username \o <<"' not found">>

C8_NotFoundOnlyOn404 ==
    (fetched.op = "fetch" /\ fetched.world.profile.status # 200) =>
        /\ ~fetched.result.ok
        /\ IF fetched.world.profile.status = 404
           THEN fetched.result.error = UserNotFound(fetched.username)
           ELSE /\ fetched.result.error = Calls[1].error
                /\ fetched.result.error # UserNotFound(fetched.username)

(* C9: every Repo node has exactly one incoming OWNS edge; analysing a     *)
(* second user with a repository of the same full_name rebinds it.         *)
C9_OneOwner ==
    \A r \in BagToSet(g.repos) :
        CountIn(g.owns, Incoming(g, r.full_name)) = 1

(* C10: for every Repo node with at least one USES_LANGUAGE edge, the      *)
(* percentage values over all of its USES_LANGUAGE edges sum to 100.       *)
C10_PercentagesSumTo100 ==
    \A r \in BagToSet(g.repos) :
        UsesOf(g, r.full_name) # {} =>
            PercentageSum(g.uses, UsesOf(g, r.full_name)) = Hundred

(* The language maps that the run answered by response l imported for the  *)
(* repository full_name (none when the run failed or was a read).          *)
ImportedMaps(l, full_name) ==
    IF l.op = "analyze" /\ l.success
    THEN {l.data.repositories[i].languages :
             i \in {j \in DOMAIN l.data.repositories :
                       l.data.repositories[j].full_name = full_name}}
    ELSE {}

(* Graph G holds exactly one USES_LANGUAGE edge from the repository to the *)
(* language of `entry`, with the bytes of the entry and this percentage.   *)
EdgeIs(G, full_name, entry, percentage) ==
    /\ CountIn(G.uses, UsesEdges(G, full_name, entry.language)) = 1
    /\ \A e \in UsesEdges(G, full_name, entry.language) :
         e.bytes = entry.bytes /\ e.percentage = percentage

SameUses(G, H, full_name) ==
    \A e \in UsesOf(G, full_name) \cup UsesOf(H, full_name) :
        CopiesIn(e, G.uses) = CopiesIn(e, H.uses)

(* C11 as stated: a run that imports a non-empty language map for a        *)
(* repository leaves, for each language of the map, exactly one            *)
(* USES_LANGUAGE edge whose bytes is the count of the map and whose        *)
(* percentage is count / total * 100 (a quotient that exists only for a    *)
(* positive total); every other step leaves the edges of the repository as *)
(* they were, so the edges always show the latest non-empty map.           *)
C11_FullReplace ==
    [][\A r \in Repositories :
          IF \E m \in ImportedMaps(last', r.full_name) : m # <<>>
          THEN \A m \in ImportedMaps(last', r.full_name) :
                 \A i \in DOMAIN m :
                    /\ SeqSum(Values(m)) > 0
                    /\ EdgeIs(g', r.full_name, m[i],
                              Q(m[i].bytes * 100, SeqSum(Values(m))))
          ELSE SameUses(g, g', r.full_name)]_vars

(* C11 amended: the same, with percentage = count / total * 100 when the   *)
(* total of the latest map is positive and percentage = 0 when it is 0.    *)
C11_FullReplaceIfPositive ==
    [][\A r \in Repositories :
          IF \E m \in ImportedMaps(last', r.full_name) : m # <<>>
          THEN \A m \in ImportedMaps(last', r.full_name) :
                 \A i \in DOMAIN m :
                    EdgeIs(g', r.full_name, m[i],
                           IF SeqSum(Values(m)) > 0
                           THEN Q(m[i].bytes * 100, SeqSum(Values(m)))
                           ELSE Zero)
          ELSE SameUses(g, g', r.full_name)]_vars

(* A re-import with a one-language map of a repository that still carries  *)
(* the edge of another language from an earlier import.                    *)
C11_Witness ==
    /\ Analyzed
    /\ \E m \in ImportedMaps(last, "a/x") :
         /\ Len(m) = 1 /\ m[1].bytes = 1
         /\ \E e \in UsesOf(g, "a/x") : e.language # m[1].language /\ e.bytes = 2

(* The USES_LANGUAGE edges to language `name` from the repositories that   *)
(* the login owns.                                                         *)
OwnedUses(G, username, name) ==
    {e \in BagToSet(G.uses) :
        /\ e.language = name
        /\ \E r \in OwnedRepos(G, username) : r.full_name = e.repo}

(* C12: for a login with a User node, language_stats has an entry for each *)
(* language that a repository of the login uses, and only for those, with  *)
(* total_bytes the sum of bytes over those edges, repo_count the number of *)
(* owned repositories with such an edge and avg_percentage the mean of the *)
(* percentage values of those edges, one term per repository.              *)
C12_LanguageStats ==
    (last.op = "stats" /\ last.user_stats.found) =>
        /\ DOMAIN last.user_stats.language_stats =
               {l.name : l \in {n \in BagToSet(g.languages) :
                                   OwnedUses(g, last.username, n.name) # {}}}
        /\ \A name \in DOMAIN last.user_stats.language_stats :
             /\ last.user_stats.language_stats[name].total_bytes =
                    SumBytes(OwnedUses(g, last.username, name))
             /\ last.user_stats.language_stats[name].repo_count =
                    Cardinality({e.repo : e \in OwnedUses(g, last.username, name)})
             /\ last.user_stats.language_stats[name].avg_percentage =
                    QDiv(SumPercentage(OwnedUses(g, last.username, name)),
                         Cardinality(OwnedUses(g, last.username, name)))

(* Everything that fetch_user_data raises in FailSpec.                     *)
FailedFetches ==
    {[ok |-> FALSE, error |-> fetch_user_data(w, <<"a">>).error] :
        w \in {v \in FailWorlds[<<"a">>] : ~fetch_user_data(v, <<"a">>).ok}}

(* C13: an analyze request whose fetch fails (at the profile request or at *)
(* the repository listing) is answered with status 400, success false and  *)
(* the error, and leaves the graph exactly as it was.                      *)
C13_FetchFailureWritesNothing ==
    [][/\ \A d \in FailedFetches :
            AfterFetch(<<"a">>, d, 1) =>
                /\ g' = g
                /\ last'.status = 400
                /\ ~last'.success
                /\ last'.error = d.error
       /\ (last'.op = "analyze" /\ ~last'.success) =>
              (g' = g /\ last'.status = 400)]_vars

(* A failed listing request answered with 400 while the graph holds data.  *)
C13_Witness ==
    /\ last.op = "analyze" /\ ~last.success /\ last.status = 400
    /\ \E i \in DOMAIN last.error : last.error[i] = "/repos"
    /\ g.repos # EmptyBag

(* C14: the network-graph route answers 404 with success false whenever no *)
(* User node with the login exists, and 200 with a nodes/edges payload     *)
(* only for a login that has a User node.                                  *)
C14_UnknownLogin404 ==
    last.op = "graph" =>
        IF UserNodes(g, last.username) = {}
        THEN last.status = 404 /\ ~last.success
        ELSE last.status = 200 /\ last.success

(* What a statement writes is in graph G.                                  *)
Written(G, statement, now) ==
    CASE statement.kind = "user" ->
             \E n \in UserNodes(G, statement.user_data.login) :
                 /\ n.public_repos = statement.user_data.public_repos
                 /\ n.last_analyzed = now
      [] statement.kind = "repository" ->
             /\ \E n \in RepoNodes(G, statement.repo_data.full_name) :
                    /\ n.stars = statement.repo_data.stars
                    /\ n.is_fork = statement.repo_data.is_fork
             /\ OwnsEdges(G, statement.username,
                          statement.repo_data.full_name) # {}
      [] statement.kind = "language" ->
             /\ LanguageNodes(G, statement.language) # {}
             /\ \E e \in UsesEdges(G, statement.repo_full_name,
                                   statement.language) :
                    /\ e.bytes = statement.bytes_count
                    /\ e.percentage = statement.percentage

(* The node and edge that a statement merges are in H as they are in G.    *)
Untouched(G, H, statement) ==
    CASE statement.kind = "user" ->
             UserNodes(G, statement.user_data.login) =
                 UserNodes(H, statement.user_data.login)
      [] statement.kind = "repository" ->
             /\ RepoNodes(G, statement.repo_data.full_name) =
                    RepoNodes(H, statement.repo_data.full_name)
             /\ OwnsEdges(G, statement.username, statement.repo_data.full_name) =
                    OwnsEdges(H, statement.username, statement.repo_data.full_name)
      [] statement.kind = "language" ->
             UsesEdges(G, statement.repo_full_name, statement.language) =
                 UsesEdges(H, statement.repo_full_name, statement.language)

(* The request answered by response l failed in the graph store.          *)
StoreFailed(l) ==
    l.op = "analyze" /\ ~l.success /\ l.error = <<"ServiceUnavailable">>

(* C15: when a statement of the import raises, the request fails (400),    *)
(* what every statement before it wrote is in the graph, and the failed    *)
(* statement and every statement after it have written nothing.            *)
C15_NoRollback ==
    [][StoreFailed(last') =>
          /\ last'.status = 400
          /\ \A j \in 1..(last'.fault - 1) :
               Written(g', Statements(last'.data)[j], 1)
          /\ \A j \in last'.fault..Len(Statements(last'.data)) :
               Untouched(g, g', Statements(last'.data)[j])]_vars

(* The store failed on the second language of the first repository of a    *)
(* batch of two: the first repository is in the graph with its first       *)
(* language only, the second repository is not in the graph.               *)
C15_Witness ==
    /\ StoreFailed(last)
    /\ Len(last.data.repositories) = 2
    /\ last.fault = 4
    /\ Cardinality(UsesOf(g, last.data.repositories[1].full_name)) = 1
    /\ RepoNodes(g, last.data.repositories[2].full_name) = {}

(* C16: for a source holding n repositories and page size p,               *)
(* get_user_repositories asks pages 1, 2, ... in this order, stops after   *)
(* the first page that is empty or shorter than p, makes n \div p + 1 page  *)
(* requests and returns the n repositories, each once, in source order.    *)
C16_Pagination ==
    fetched.op = "list" =>
        /\ fetched.result.ok
        /\ Len(fetched.result.calls) =
               (Len(fetched.world.repos) \div fetched.per_page) + 1
        /\ \A c \in DOMAIN fetched.result.calls :
             /\ fetched.result.calls[c].issued[1] =
                    ReposRequest(fetched.username, fetched.per_page, c)
             /\ (Len(fetched.result.calls[c].json) < fetched.per_page)
                    <=> (c = Len(fetched.result.calls))
        /\ fetched.result.repositories =
               [i \in DOMAIN fetched.world.repos |->
                   [name |-> fetched.world.repos[i].name,
                    full_name |-> fetched.world.repos[i].full_name,
                    stars |-> fetched.world.repos[i].stars,
                    is_fork |-> fetched.world.repos[i].fork]]

(* Two full pages followed by the empty page that ends the listing.        *)
C16_Witness ==
    /\ fetched.op = "list"
    /\ fetched.per_page = 2
    /\ Len(fetched.world.repos) = 4
    /\ Len(fetched.result.calls) = 3
    /\ fetched.result.calls[3].json = <<>>

(* C17: with every statement atomic, no interleaving of the statements of  *)
(* two pipeline runs leaves two User nodes with one login, two Repo nodes  *)
(* with one full_name, two Language nodes with one name, two OWNS edges    *)
(* between one User and one Repo, or two USES_LANGUAGE edges between one   *)
(* Repo and one Language.                                                  *)
C17_NoDuplicates ==
    /\ \A n \in BagToSet(g.users) : CountIn(g.users, UserNodes(g, n.login)) = 1
    /\ \A n \in BagToSet(g.repos) :
         CountIn(g.repos, RepoNodes(g, n.full_name)) = 1
    /\ \A n \in BagToSet(g.languages) :
         CountIn(g.languages, LanguageNodes(g, n.name)) = 1
    /\ \A e \in BagToSet(g.owns) :
         CountIn(g.owns, OwnsEdges(g, e.user, e.repo)) = 1
    /\ \A e \in BagToSet(g.uses) :
         CountIn(g.uses, UsesEdges(g, e.repo, e.language)) = 1

(* Two requests for different logins have both imported the repository     *)
(* a/x with two languages, and the second began before the first ended.    *)
C17_Witness ==
    /\ runs[1].pc = "done" /\ runs[1].success
    /\ runs[2].pc = "import" /\ runs[2].next > Len(runs[2].statements)
    /\ runs[1].username # runs[2].username
    /\ Len(runs[1].data.repositories) = 1 /\ Len(runs[2].data.repositories) = 1
    /\ Len(runs[1].data.repositories[1].languages) = 2
    /\ Len(runs[2].data.repositories[1].languages) = 2
    /\ last.op = "analyze" /\ last.user_stats.found
    /\ Cardinality(BagToSet(g.owns)) = 2

(* Both requests have answered success.                                    *)
BothDone == \A r \in Requests : runs[r].pc = "done" /\ runs[r].success

(* The graph that the import of snapshot A followed by the import of       *)
(* snapshot B leaves, from the empty graph.                                *)
Sequential(A, B) ==
    import_complete_user_data(import_complete_user_data(EmptyGraph, A, 1), B, 1)

Linearized ==
    \/ g = Sequential(runs[1].data, runs[2].data)
    \/ g = Sequential(runs[2].data, runs[1].data)

(* Some statement of request r wrote this USES_LANGUAGE edge.              *)
WroteEdge(r, e) ==
    \E i \in DOMAIN Statements(runs[r].data) :
        /\ Statements(runs[r].data)[i].kind = "language"
        /\ Statements(runs[r].data)[i].repo_full_name = e.repo
        /\ Statements(runs[r].data)[i].language = e.language
        /\ Statements(runs[r].data)[i].bytes_count = e.bytes
        /\ Statements(runs[r].data)[i].percentage = e.percentage

(* C18: two concurrent runs for one login are ordered statement by         *)
(* statement, not run by run: when both have answered success, each        *)
(* USES_LANGUAGE edge, and the Repo and User nodes, carry what a statement *)
(* of one of the two runs wrote (the last writer of that statement's key), *)
(* and the graph as a whole need not be the one that either sequential     *)
(* order of the two runs leaves (C18_Witness is such an outcome).          *)
C18_LastWriterPerStatement ==
    (BothDone /\ runs[1].username = runs[2].username) =>
        /\ \A e \in BagToSet(g.uses) : \E r \in Requests : WroteEdge(r, e)
        /\ \A n \in BagToSet(g.repos) :
             \E r \in Requests : \E i \in DOMAIN runs[r].data.repositories :
                 /\ runs[r].data.repositories[i].full_name = n.full_name
                 /\ runs[r].data.repositories[i].stars = n.stars
                 /\ runs[r].data.repositories[i].is_fork = n.is_fork
        /\ \A n \in BagToSet(g.users) :
             \E r \in Requests :
                 /\ runs[r].data.user.login = n.login
                 /\ runs[r].data.user.public_repos = n.public_repos

(* Both runs for login "a" answered success and the graph is that of       *)
(* neither sequential order: the edges of a/x carry the bytes and          *)
(* percentage of one snapshot for Python and of the other for JavaScript.  *)
C18_Witness ==
    /\ BothDone /\ runs[1].username = runs[2].username
    /\ ~Linearized
    /\ \E e1, e2 \in UsesOf(g, "a/x") :
         /\ WroteEdge(1, e1) /\ ~WroteEdge(2, e1)
         /\ WroteEdge(2, e2) /\ ~WroteEdge(1, e2)
====
